---- MODULE Spec2Model ----
(***************************************************************************)
(* Model of weather_api/tool.py: the entry point main, the Fetcher         *)
(* fetch_weather_data, the Formatter format_weather_data and the CLI       *)
(* driver under `if __name__ == "__main__"`.                               *)
(*                                                                         *)
(* Texts are TLA+ strings, built with \o as the code builds them with      *)
(* f-strings and json.dumps.  A Python dict is a function whose DOMAIN is  *)
(* the set of keys present; a JSON number is a tagged record, because      *)
(* Python prints an int and a float differently.                           *)
(***************************************************************************)
EXTENDS Integers, Sequences, FiniteSets, TLC

(***************************************************************************)
(* Bounds                                                                  *)
(***************************************************************************)
\* How many fields a modelled provider body may lack at once.
MaxMissing == 1

(***************************************************************************)
(* Text helpers                                                            *)
(***************************************************************************)
Contains(s, sub) ==
    \E i \in 1..(Len(s) - Len(sub) + 1) : SubSeq(s, i, i + Len(sub) - 1) = sub

StartsWith(s, pre) ==
    Len(s) >= Len(pre) /\ SubSeq(s, 1, Len(pre)) = pre

EndsWith(s, suf) ==
    Len(s) >= Len(suf) /\ SubSeq(s, Len(s) - Len(suf) + 1, Len(s)) = suf

\* Number of elements of a sequence that equal x.
RECURSIVE Count(_, _)
Count(seq, x) ==
    IF seq = <<>> THEN 0
    ELSE (IF Head(seq) = x THEN 1 ELSE 0) + Count(Tail(seq), x)

\* Index of the first element of seq equal to x, 0 when there is none.
IndexOf(seq, x) ==
    IF \E i \in 1..Len(seq) : seq[i] = x
    THEN CHOOSE i \in 1..Len(seq) : seq[i] = x /\ \A j \in 1..(i - 1) : seq[j] # x
    ELSE 0

(***************************************************************************)
(* Python values                                                           *)
(***************************************************************************)
PyInt(n) == [t |-> "int", n |-> n]

\* A float with one decimal digit, held in tenths: PyFloat(185) is 18.5.
PyFloat(tenths) == [t |-> "float", n |-> tenths]

Abs(n) == IF n < 0 THEN -n ELSE n

\* str(x) of a number, which is also what an f-string "{x}" and json.dumps
\* write: an int in decimal, a float by its shortest repr ("18.5", "-0.5",
\* "3.0").
PyStr(x) ==
    IF x.t = "int" THEN ToString(x.n)
    ELSE (IF x.n < 0 THEN "-" ELSE "")
         \o ToString(Abs(x.n) \div 10) \o "." \o ToString(Abs(x.n) % 10)

\* Texts are converted character by character, splitting the text in halves.
\* urllib.parse.quote on one character: unreserved characters and "/" are
\* kept, the others are percent-encoded.
QuoteChar(c) ==
    CASE c = " " -> "%20"
      [] c = "," -> "%2C"
      [] c = "'" -> "%27"
      [] c = "&" -> "%26"
      [] c = "=" -> "%3D"
      [] OTHER   -> c

RECURSIVE quote(_)
quote(s) ==
    IF Len(s) = 0 THEN ""
    ELSE IF Len(s) = 1 THEN QuoteChar(s)
    ELSE LET h == Len(s) \div 2
         IN  quote(SubSeq(s, 1, h)) \o quote(SubSeq(s, h + 1, Len(s)))

\* json.dumps on one character of a string (ensure_ascii is on by default).
JsonEscapeChar(c) ==
    CASE c = "\"" -> "\\\""
      [] c = "\\" -> "\\\\"
      [] c = "°"  -> "\\u00b0"
      [] OTHER    -> c

RECURSIVE JsonEscape(_)
JsonEscape(s) ==
    IF Len(s) = 0 THEN ""
    ELSE IF Len(s) = 1 THEN JsonEscapeChar(s)
    ELSE LET h == Len(s) \div 2
         IN  JsonEscape(SubSeq(s, 1, h)) \o JsonEscape(SubSeq(s, h + 1, Len(s)))

\* json.dumps of a str.
JsonStr(s) == "\"" \o JsonEscape(s) \o "\""

(***************************************************************************)
(* json.dumps of the dicts the program serialises.  Keys are written in    *)
(* insertion order, separated by ", ", with ": " after each key.           *)
(***************************************************************************)
RECURSIVE JoinItems(_)
JoinItems(items) ==
    IF items = <<>> THEN ""
    ELSE IF Head(items) = "" THEN JoinItems(Tail(items))
    ELSE LET rest == JoinItems(Tail(items))
         IN  IF rest = "" THEN Head(items) ELSE Head(items) \o ", " \o rest

JsonObj(items) == "{" \o JoinItems(items) \o "}"

\* The "key": value text of key k when d has it, and nothing otherwise.
Member(d, k, Val(_)) ==
    IF k \in DOMAIN d THEN JsonStr(k) \o ": " \o Val(d[k]) ELSE ""

DumpsCondition(w) ==
    JsonObj(<<Member(w, "main", JsonStr), Member(w, "description", JsonStr)>>)

DumpsWeatherList(l) ==
    IF l = <<>> THEN "[]" ELSE "[" \o DumpsCondition(l[1]) \o "]"

DumpsMain(m) ==
    JsonObj(<<Member(m, "temp", PyStr), Member(m, "feels_like", PyStr),
              Member(m, "humidity", PyStr)>>)

DumpsWind(w) == JsonObj(<<Member(w, "speed", PyStr)>>)

DumpsSys(s) ==
    JsonObj(<<Member(s, "country", JsonStr), Member(s, "sunrise", PyStr),
              Member(s, "sunset", PyStr)>>)

\* json.dumps of a provider response.
DumpsResponse(d) ==
    JsonObj(<<Member(d, "weather", DumpsWeatherList), Member(d, "main", DumpsMain),
              Member(d, "wind", DumpsWind), Member(d, "sys", DumpsSys),
              Member(d, "name", JsonStr), Member(d, "cod", PyStr)>>)

DumpsLabels(w) ==
    JsonObj(<<Member(w, "condition", JsonStr), Member(w, "description", JsonStr),
              Member(w, "temperature", JsonStr), Member(w, "feels_like", JsonStr),
              Member(w, "humidity", JsonStr), Member(w, "wind_speed", JsonStr)>>)

\* json.dumps(formatted_data), line 125.
DumpsFormatted(f) ==
    JsonObj(<<Member(f, "location", JsonStr), Member(f, "weather", DumpsLabels),
              Member(f, "raw_data", DumpsResponse)>>)

\* json.dumps({"error": msg}), lines 107, 116, 132 and 139.
DumpsError(msg) == JsonObj(<<JsonStr("error") \o ": " \o JsonStr(msg)>>)

(***************************************************************************)
(* Provider responses                                                      *)
(***************************************************************************)
\* The response the tests mock, reduced to the fields the Formatter reads
\* and one it does not (cod).  Floats are kept to one decimal.
SAMPLE_WEATHER_RESPONSE ==
    [weather |-> <<[main |-> "Clear", description |-> "clear sky"]>>,
     main    |-> [temp |-> PyFloat(185), feels_like |-> PyFloat(179),
                  humidity |-> PyInt(61)],
     wind    |-> [speed |-> PyFloat(26)],
     sys     |-> [country |-> "GB", sunrise |-> PyInt(1652847272),
                  sunset |-> PyInt(1652903026)],
     name    |-> "London",
     cod     |-> PyInt(200)]

\* A second response, with an int and a negative float as readings.
WINTER_WEATHER_RESPONSE ==
    [weather |-> <<[main |-> "Snow", description |-> "light snow"]>>,
     main    |-> [temp |-> PyFloat(-5), feels_like |-> PyInt(-3),
                  humidity |-> PyInt(90)],
     wind    |-> [speed |-> PyInt(4)],
     sys     |-> [country |-> "US", sunrise |-> PyInt(1652847000),
                  sunset |-> PyInt(1652903000)],
     name    |-> "New York",
     cod     |-> PyInt(200)]

FullResponses == {SAMPLE_WEATHER_RESPONSE, WINTER_WEATHER_RESPONSE}

\* The places of a response that a body may lack.
Paths ==
    {"weather", "weather[0]", "weather[0].main", "weather[0].description",
     "main", "main.temp", "main.feels_like", "main.humidity",
     "wind", "wind.speed",
     "name",
     "sys", "sys.country", "sys.sunrise", "sys.sunset",
     "cod"}

KeysLeft(prefix, keys, missing) ==
    {k \in keys : (prefix \o k) \notin missing}

\* The response full without the places in missing.
Body(full, missing) ==
    [k \in KeysLeft("", {"weather", "main", "wind", "name", "sys", "cod"}, missing) |->
        CASE k = "weather" ->
                IF "weather[0]" \in missing THEN <<>>
                ELSE <<[j \in KeysLeft("weather[0].", {"main", "description"}, missing)
                          |-> full.weather[1][j]]>>
          [] k = "main" ->
                [j \in KeysLeft("main.", {"temp", "feels_like", "humidity"}, missing)
                    |-> full.main[j]]
          [] k = "wind" ->
                [j \in KeysLeft("wind.", {"speed"}, missing) |-> full.wind[j]]
          [] k = "sys" ->
                [j \in KeysLeft("sys.", {"country", "sunrise", "sunset"}, missing)
                    |-> full.sys[j]]
          [] OTHER -> full[k]]

MissingSets == {m \in SUBSET Paths : Cardinality(m) <= MaxMissing}

\* Every JSON object the provider is modelled to return with status 200.
ProviderBodies == {Body(full, m) : full \in FullResponses, m \in MissingSets}

(***************************************************************************)
(* Calls: a call returns a value or raises an exception                    *)
(***************************************************************************)
Return(v) == [ok |-> TRUE, val |-> v]

Raise(type, msg) == [ok |-> FALSE, exc |-> [type |-> type, msg |-> msg]]

\* d[k] for each key of path in turn; "[0]" is the list index 0.  A key the
\* dict lacks raises KeyError, whose str is the key's repr; an empty list
\* raises IndexError.
RECURSIVE Subscript(_, _)
Subscript(v, path) ==
    IF path = <<>> THEN Return(v)
    ELSE IF Head(path) = "[0]"
         THEN IF Len(v) >= 1 THEN Subscript(v[1], Tail(path))
              ELSE Raise("IndexError", "list index out of range")
         ELSE IF Head(path) \in DOMAIN v THEN Subscript(v[Head(path)], Tail(path))
              ELSE Raise("KeyError", "'" \o Head(path) \o "'")

\* The subscript expressions of format_weather_data in program order
\* (lines 61-74).
FormatReads ==
    <<<<"weather", "[0]", "main">>, <<"weather", "[0]", "description">>,
      <<"main", "temp">>, <<"main", "feels_like">>, <<"main", "humidity">>,
      <<"wind", "speed">>,
      <<"name">>, <<"sys", "country">>,
      <<"sys", "sunrise">>, <<"sys", "sunset">>>>

\* format_weather_data with feels_like labelled from temp.
format_weather_data_FeelsLikeFromTemp(weather_data, units) ==
    LET temp_unit  == IF units = "metric" THEN "°C" ELSE "°F"
        speed_unit == IF units = "metric" THEN "m/s" ELSE "mph"
        failed     == {i \in 1..Len(FormatReads) :
                          ~Subscript(weather_data, FormatReads[i]).ok}
    IN  IF failed # {}
        THEN Subscript(weather_data,
                       FormatReads[CHOOSE i \in failed : \A j \in failed : i <= j])
        ELSE Return([location |-> weather_data.name \o ", " \o weather_data.sys.country,
                     weather  |-> [condition   |-> weather_data.weather[1].main,
                                   description |-> weather_data.weather[1].description,
                                   temperature |-> PyStr(weather_data.main.temp) \o " " \o temp_unit,
                                   feels_like  |-> PyStr(weather_data.main.temp) \o " " \o temp_unit,
                                   humidity    |-> PyStr(weather_data.main.humidity) \o "%",
                                   wind_speed  |-> PyStr(weather_data.wind.speed) \o " " \o speed_unit],
                     raw_data |-> weather_data])

\* format_weather_data keeping in raw_data only the entries it reads.
format_weather_data_RawDataTrimmed(weather_data, units) ==
    LET temp_unit  == IF units = "metric" THEN "°C" ELSE "°F"
        speed_unit == IF units = "metric" THEN "m/s" ELSE "mph"
        failed     == {i \in 1..Len(FormatReads) :
                          ~Subscript(weather_data, FormatReads[i]).ok}
    IN  IF failed # {}
        THEN Subscript(weather_data,
                       FormatReads[CHOOSE i \in failed : \A j \in failed : i <= j])
        ELSE Return([location |-> weather_data.name \o ", " \o weather_data.sys.country,
                     weather  |-> [condition   |-> weather_data.weather[1].main,
                                   description |-> weather_data.weather[1].description,
                                   temperature |-> PyStr(weather_data.main.temp) \o " " \o temp_unit,
                                   feels_like  |-> PyStr(weather_data.main.feels_like) \o " " \o temp_unit,
                                   humidity    |-> PyStr(weather_data.main.humidity) \o "%",
                                   wind_speed  |-> PyStr(weather_data.wind.speed) \o " " \o speed_unit],
                     raw_data |-> [k \in DOMAIN weather_data \ {"cod"} |-> weather_data[k]]])

format_weather_data(weather_data, units) ==
    LET temp_unit  == IF units = "metric" THEN "°C" ELSE "°F"
        speed_unit == IF units = "metric" THEN "m/s" ELSE "mph"
        failed     == {i \in 1..Len(FormatReads) :
                          ~Subscript(weather_data, FormatReads[i]).ok}
    IN  IF failed # {}
        THEN Subscript(weather_data,
                       FormatReads[CHOOSE i \in failed : \A j \in failed : i <= j])
        ELSE LET main_weather == weather_data.weather[1].main
                 description  == weather_data.weather[1].description
                 temp         == weather_data.main.temp
                 feels_like   == weather_data.main.feels_like
                 humidity     == weather_data.main.humidity
                 wind_speed   == weather_data.wind.speed
                 city_name    == weather_data.name
                 country      == weather_data.sys.country
                 location     == city_name \o ", " \o country
             IN  Return([location |-> location,
                         weather  |-> [condition   |-> main_weather,
                                       description |-> description,
                                       temperature |-> PyStr(temp) \o " " \o temp_unit,
                                       feels_like  |-> PyStr(feels_like) \o " " \o temp_unit,
                                       humidity    |-> PyStr(humidity) \o "%",
                                       wind_speed  |-> PyStr(wind_speed) \o " " \o speed_unit],
                         raw_data |-> weather_data])

(***************************************************************************)
(* Inputs                                                                  *)
(***************************************************************************)
API_BASE_URL == "https://api.openweathermap.org/data/2.5/weather"

\* What dict.get returns for a key the dict lacks.  No input text equals it.
None == "<None>"

Absent == "<absent>"

\* A dict with the given entries; an entry whose value is Absent is left out.
MkDict(k1, v1, k2, v2) ==
    [k \in (IF v1 = Absent THEN {} ELSE {k1}) \cup (IF v2 = Absent THEN {} ELSE {k2})
        |-> IF k = k1 THEN v1 ELSE v2]

LocationInputs == {Absent, "", "London", "New York"}

UnitsInputs == {Absent, "metric", "imperial", "kelvin", "Metric"}

ApiKeyInputs == {Absent, "", "test_api_key"}

ParamsInputs == {MkDict("location", l, "units", u) : l \in LocationInputs, u \in UnitsInputs}

SecretsInputs == {MkDict("OPENWEATHERMAP_API_KEY", k, "unused", Absent) : k \in ApiKeyInputs}

\* Statuses other than 200 the provider is modelled to answer with.
ErrorStatuses == {201, 204, 400, 401, 403, 404, 429, 500, 503}

\* str(e) of the aiohttp.ClientError raised when the call cannot complete.
ClientErrorTexts ==
    {"Cannot connect to host api.openweathermap.org:443 ssl:default [Name or service not known]",
     "Server disconnected"}

\* What response.json() raises on a 200 whose body is not a JSON document:
\* aiohttp.ContentTypeError (a ClientError) when the content type is not
\* JSON, json.JSONDecodeError (a ValueError) when the text does not parse.
JsonFailures ==
    {[type |-> "ContentTypeError",
      msg  |-> "200, message='Attempt to decode JSON with unexpected mimetype: text/html'"],
     [type |-> "JSONDecodeError",
      msg  |-> "Expecting value: line 1 column 1 (char 0)"]}

dict_get(d, k, default) == IF k \in DOMAIN d THEN d[k] ELSE default

\* Python truth of a str or None.
Truthy(v) == v # None /\ v # ""

\* isinstance(e, aiohttp.ClientError)
IsClientError(type) == type \in {"ClientError", "ContentTypeError"}

\* isinstance(e, ValueError)
IsValueError(type) == type \in {"ValueError", "JSONDecodeError"}

(***************************************************************************)
(* State                                                                   *)
(***************************************************************************)
VARIABLES
    params,       \* input_data["params"]
    secrets,      \* input_data["secrets"]
    pc,           \* "main", "fetch", "awaiting", "returned", "exited"
    units,        \* main's local units once set, "" before
    requests,     \* the URLs of the GETs issued, in order
    session,      \* the aiohttp.ClientSession: "none", "open", "closed"
    response,     \* what came back for the GET
    fetched,      \* <<>> or <<r>>, r what fetch_weather_data returned or raised
    formatted,    \* <<>> or <<r>>, r what format_weather_data returned or raised
    events,       \* the steps taken, in order
    result,       \* the text main returned, "" before
    stdout        \* the lines written to standard output

vars == <<params, secrets, pc, units, requests, session, response, fetched,
          formatted, events, result, stdout>>

NoResponse == [kind |-> "none"]

Init ==
    /\ params \in ParamsInputs
    /\ secrets \in SecretsInputs
    /\ pc = "main"
    /\ units = ""
    /\ requests = <<>>
    /\ session = "none"
    /\ response = NoResponse
    /\ fetched = <<>>
    /\ formatted = <<>>
    /\ events = <<>>
    /\ result = ""
    /\ stdout = <<>>

(***************************************************************************)
(* main, lines 103-116: validation                                         *)
(***************************************************************************)
\* MainValidate with the API key checked before the location.
MainValidate_KeyFirst ==
    /\ pc = "main"
    /\ LET location  == dict_get(params, "location", None)
           units_in  == dict_get(params, "units", "metric")
           units_set == IF units_in \notin {"metric", "imperial"}
                        THEN "metric" ELSE units_in
           api_key   == dict_get(secrets, "OPENWEATHERMAP_API_KEY", None)
       IN  IF ~Truthy(api_key)
           THEN /\ result' = DumpsError("OpenWeatherMap API key is required")
                /\ pc' = "returned"
                /\ events' = Append(events, "return")
                /\ units' = units_set
           ELSE IF ~Truthy(location)
           THEN /\ result' = DumpsError("Location parameter is required")
                /\ pc' = "returned"
                /\ events' = Append(events, "return")
                /\ UNCHANGED units
           ELSE /\ pc' = "fetch"
                /\ units' = units_set
                /\ UNCHANGED <<result, events>>
    /\ UNCHANGED <<params, secrets, requests, session, response, fetched,
                   formatted, stdout>>

\* MainValidate passing units on as given.
MainValidate_NoCoercion ==
    /\ pc = "main"
    /\ LET location  == dict_get(params, "location", None)
           units_in  == dict_get(params, "units", "metric")
           api_key   == dict_get(secrets, "OPENWEATHERMAP_API_KEY", None)
       IN  IF ~Truthy(location)
           THEN /\ result' = DumpsError("Location parameter is required")
                /\ pc' = "returned"
                /\ events' = Append(events, "return")
                /\ UNCHANGED units
           ELSE IF ~Truthy(api_key)
           THEN /\ result' = DumpsError("OpenWeatherMap API key is required")
                /\ pc' = "returned"
                /\ events' = Append(events, "return")
                /\ units' = units_in
           ELSE /\ pc' = "fetch"
                /\ units' = units_in
                /\ UNCHANGED <<result, events>>
    /\ UNCHANGED <<params, secrets, requests, session, response, fetched,
                   formatted, stdout>>

MainValidate ==
    /\ pc = "main"
    /\ LET location  == dict_get(params, "location", None)
           units_in  == dict_get(params, "units", "metric")
           units_set == IF units_in \notin {"metric", "imperial"}
                        THEN "metric" ELSE units_in
           api_key   == dict_get(secrets, "OPENWEATHERMAP_API_KEY", None)
       IN  IF ~Truthy(location)
           THEN /\ result' = DumpsError("Location parameter is required")
                /\ pc' = "returned"
                /\ events' = Append(events, "return")
                /\ UNCHANGED units
           ELSE IF ~Truthy(api_key)
           THEN /\ result' = DumpsError("OpenWeatherMap API key is required")
                /\ pc' = "returned"
                /\ events' = Append(events, "return")
                /\ units' = units_set
           ELSE /\ pc' = "fetch"
                /\ units' = units_set
                /\ UNCHANGED <<result, events>>
    /\ UNCHANGED <<params, secrets, requests, session, response, fetched,
                   formatted, stdout>>

(***************************************************************************)
(* fetch_weather_data, lines 26-37: build the URL, print it, open the      *)
(* session and issue the GET                                               *)
(***************************************************************************)
Url(location, units_arg, api_key) ==
    API_BASE_URL \o "?q=" \o quote(location) \o "&units=" \o units_arg
                 \o "&appid=" \o api_key

FetchSend ==
    /\ pc = "fetch"
    /\ LET url == Url(dict_get(params, "location", None), units,
                      dict_get(secrets, "OPENWEATHERMAP_API_KEY", None))
       IN  /\ stdout' = Append(stdout, "Fetching weather data from: " \o url)
           /\ requests' = Append(requests, url)
    /\ session' = "open"
    /\ events' = events \o <<"session_open", "GET">>
    /\ pc' = "awaiting"
    /\ UNCHANGED <<params, secrets, units, response, fetched, formatted, result>>

(***************************************************************************)
(* fetch_weather_data, lines 38-52: what the call returns or raises for    *)
(* what came back                                                          *)
(***************************************************************************)
\* The body of the try block, lines 36-49.
\* FetchTry without the 401 and 404 branches.
FetchTry_GenericOnly(location, resp) ==
    CASE resp.kind = "http" ->
            IF resp.status = 200 THEN Return(resp.body)
            ELSE Raise("ValueError", "Failed to fetch weather data")
      [] resp.kind = "json_failure" -> Raise(resp.exc.type, resp.exc.msg)
      [] resp.kind = "client_error" -> Raise("ClientError", resp.msg)
      [] resp.kind = "timeout"      -> Raise("TimeoutError", "")

FetchTry(location, resp) ==
    CASE resp.kind = "http" ->
            IF resp.status = 200 THEN Return(resp.body)
            ELSE IF resp.status = 401
            THEN Raise("ValueError",
                       "Invalid API key. Please check your API key and try again.")
            ELSE IF resp.status = 404
            THEN Raise("ValueError",
                       "Location '" \o location
                           \o "' not found. Please check the spelling and try again.")
            ELSE Raise("ValueError",
                       "Failed to fetch weather data: HTTP " \o ToString(resp.status))
      [] resp.kind = "json_failure" -> Raise(resp.exc.type, resp.exc.msg)
      [] resp.kind = "client_error" -> Raise("ClientError", resp.msg)
      [] resp.kind = "timeout"      -> Raise("TimeoutError", "")

\* The try block with its except clause, lines 50-52.
fetch_weather_data(location, resp) ==
    LET r == FetchTry(location, resp)
    IN  IF ~r.ok /\ IsClientError(r.exc.type)
        THEN Raise("ValueError", "Failed to connect to weather service: " \o r.exc.msg)
        ELSE r

\* The steps of the Fetcher from the arrival of resp to its return.
FetchEvents(resp) ==
    (CASE resp.kind = "http" ->
            IF resp.status = 200 THEN <<"status_200", "json">> ELSE <<"status_error">>
       [] resp.kind = "json_failure" -> <<"status_200", "json">>
       [] OTHER -> <<"no_response">>)
    \o <<"session_close">>

(***************************************************************************)
(* main, lines 127-139: the except clauses                                 *)
(***************************************************************************)
\* MainExcept without the except Exception clause: any other exception
\* leaves main, which returns no text.
MainExcept_ValueErrorOnly(exc) ==
    IF IsValueError(exc.type)
    THEN DumpsError(exc.msg)
    ELSE ""

MainExcept(exc) ==
    IF IsValueError(exc.type)
    THEN DumpsError(exc.msg)
    ELSE DumpsError("An unexpected error occurred: " \o exc.msg)

(***************************************************************************)
(* main, lines 119-139: from the arrival of resp to main's return          *)
(***************************************************************************)
\* Complete issuing the GET once more after a failure of the first.
Complete_Retry(resp) ==
    /\ response' = resp
    /\ LET f == fetch_weather_data(dict_get(params, "location", None), resp)
       IN  /\ fetched' = <<f>>
           /\ IF f.ok
              THEN LET g == format_weather_data(f.val, units)
                   IN  /\ formatted' = <<g>>
                       /\ result' = IF g.ok THEN DumpsFormatted(g.val)
                                    ELSE MainExcept(g.exc)
                       /\ events' = events \o FetchEvents(resp) \o <<"format", "return">>
                       /\ requests' = requests
                       /\ session' = "closed"
                       /\ pc' = "returned"
              ELSE IF Len(requests) < 2
              THEN /\ formatted' = formatted
                   /\ result' = result
                   /\ events' = events \o FetchEvents(resp) \o <<"session_open", "GET">>
                   /\ requests' = Append(requests, requests[1])
                   /\ session' = "open"
                   /\ pc' = "awaiting"
              ELSE /\ formatted' = formatted
                   /\ result' = MainExcept(f.exc)
                   /\ events' = events \o FetchEvents(resp) \o <<"return">>
                   /\ requests' = requests
                   /\ session' = "closed"
                   /\ pc' = "returned"
    /\ UNCHANGED <<params, secrets, units, stdout>>

Complete(resp) ==
    /\ response' = resp
    /\ session' = "closed"
    /\ LET f == fetch_weather_data(dict_get(params, "location", None), resp)
       IN  /\ fetched' = <<f>>
           /\ IF f.ok
              THEN LET g == format_weather_data(f.val, units)
                   IN  /\ formatted' = <<g>>
                       /\ result' = IF g.ok THEN DumpsFormatted(g.val)
                                    ELSE MainExcept(g.exc)
                       /\ events' = events \o FetchEvents(resp) \o <<"format", "return">>
              ELSE /\ formatted' = formatted
                   /\ result' = MainExcept(f.exc)
                   /\ events' = events \o FetchEvents(resp) \o <<"return">>
    /\ pc' = "returned"
    /\ UNCHANGED <<params, secrets, units, requests, stdout>>

\* The provider answers 200 with a JSON object.
FetchStatusOk ==
    /\ pc = "awaiting"
    /\ \E body \in ProviderBodies :
           Complete([kind |-> "http", status |-> 200, body |-> body])

\* The provider answers with another status; the body is not read.
FetchStatusError ==
    /\ pc = "awaiting"
    /\ \E status \in ErrorStatuses :
           Complete([kind |-> "http", status |-> status])

\* The provider answers 200 and response.json() fails.
FetchJsonFailure ==
    /\ pc = "awaiting"
    /\ \E exc \in JsonFailures :
           Complete([kind |-> "json_failure", status |-> 200, exc |-> exc])

\* The network call fails with an aiohttp.ClientError.
FetchClientError ==
    /\ pc = "awaiting"
    /\ \E msg \in ClientErrorTexts :
           Complete([kind |-> "client_error", msg |-> msg])

\* The client's total timeout expires: asyncio.TimeoutError, which is not an
\* aiohttp.ClientError.
FetchTimeout ==
    /\ pc = "awaiting"
    /\ Complete([kind |-> "timeout"])

(***************************************************************************)
(* The CLI driver, line 151                                                *)
(***************************************************************************)
DriverPrint ==
    /\ pc = "returned"
    /\ stdout' = Append(stdout, result)
    /\ pc' = "exited"
    /\ UNCHANGED <<params, secrets, units, requests, session, response, fetched,
                   formatted, events, result>>

Next ==
    \/ MainValidate
    \/ FetchSend
    \/ FetchStatusOk
    \/ FetchStatusError
    \/ FetchJsonFailure
    \/ FetchClientError
    \/ FetchTimeout
    \/ DriverPrint

Spec == Init /\ [][Next]_vars

(***************************************************************************)
(* Properties                                                              *)
(***************************************************************************)
Returned == pc \in {"returned", "exited"}

LocationMissing == "location" \notin DOMAIN params \/ params["location"] = ""

ApiKeyMissing ==
    \/ "OPENWEATHERMAP_API_KEY" \notin DOMAIN secrets
    \/ secrets["OPENWEATHERMAP_API_KEY"] = ""

UnitsUnsupported ==
    "units" \notin DOMAIN params \/ params["units"] \notin {"metric", "imperial"}

\* The JSON text of {"error": msg} for a msg that needs no escaping.
ErrorText(msg) == "{\"error\": \"" \o msg \o "\"}"

IsErrorResult(text) ==
    StartsWith(text, "{\"error\": \"") /\ EndsWith(text, "\"}")

IsFormattedResult(text) ==
    /\ StartsWith(text, "{\"location\": \"")
    /\ Contains(text, "\", \"weather\": {\"condition\": \"")
    /\ Contains(text, "\"}, \"raw_data\": {")
    /\ EndsWith(text, "}}")

FormatReturned == formatted # <<>> /\ formatted[1].ok

FetchRaised == fetched # <<>> /\ ~fetched[1].ok

\* C1: when location is missing or empty main returns exactly the location
\* error, whatever units and the secrets are; when location is non-empty
\* and the API key is missing or empty it returns exactly the API key
\* error, whatever units is.
C1_ValidationOrder ==
    Returned =>
        /\ LocationMissing =>
              result = "{\"error\": \"Location parameter is required\"}"
        /\ ~LocationMissing /\ ApiKeyMissing =>
              result = "{\"error\": \"OpenWeatherMap API key is required\"}"

\* Location and API key both missing, units unsupported: the location error.
C1_Witness ==
    /\ Returned
    /\ LocationMissing
    /\ ApiKeyMissing
    /\ "units" \in DOMAIN params /\ params["units"] = "kelvin"
    /\ result = "{\"error\": \"Location parameter is required\"}"

\* C2: whatever the params, the secrets and the provider do, main returns a
\* JSON text that is a FormattedResult or an ErrorResult; no exception
\* leaves main.
C2_AlwaysJsonText ==
    Returned =>
        /\ IsErrorResult(result) \/ IsFormattedResult(result)
        /\ IsFormattedResult(result) <=> FormatReturned

\* A 200 body lacking a field: format raised and main returned an error.
C2_Witness ==
    /\ Returned
    /\ formatted # <<>> /\ ~formatted[1].ok
    /\ formatted[1].exc.type = "KeyError"
    /\ IsErrorResult(result)

\* C3: 401 gives an error text containing "Invalid API key", 404 one
\* containing "not found" and the location, any other status but 200 one
\* carrying the status code; main returns {error: that text}; the body is
\* parsed as JSON only on status 200.
C3_StatusClassification ==
    /\ Returned /\ response.kind = "http" /\ response.status # 200 =>
          /\ FetchRaised
          /\ LET msg == fetched[1].exc.msg
             IN  /\ response.status = 401 => Contains(msg, "Invalid API key")
                 /\ response.status = 404 =>
                       Contains(msg, "not found") /\ Contains(msg, params["location"])
                 /\ response.status \notin {401, 404} =>
                       Contains(msg, ToString(response.status))
                 /\ result = ErrorText(msg)
    /\ Count(events, "json") > 0 =>
          response.kind \in {"http", "json_failure"} /\ response.status = 200

\* The provider answered 404 for "New York".
C3_Witness ==
    /\ Returned
    /\ response.kind = "http" /\ response.status = 404
    /\ params["location"] = "New York"
    /\ result = "{\"error\": \"Location 'New York' not found. Please check the spelling and try again.\"}"

\* C4: standard output holds nothing until the driver prints, and then
\* exactly one line, the result JSON.
C4_SingleLineOnStdout ==
    /\ pc # "exited" => stdout = <<>>
    /\ pc = "exited" => stdout = <<result>>

AllConsumedPresent(body) ==
    /\ {"weather", "main", "wind", "name", "sys"} \subseteq DOMAIN body
    /\ Len(body.weather) >= 1
    /\ {"main", "description"} \subseteq DOMAIN body.weather[1]
    /\ {"temp", "feels_like", "humidity"} \subseteq DOMAIN body.main
    /\ "speed" \in DOMAIN body.wind
    /\ "country" \in DOMAIN body.sys

\* C5: for every 200 response in which the eight consumed fields are
\* present, whatever else is present or absent, format returns a
\* FormattedResult and main returns no error.
C5_OnlyConsumedFieldsRead ==
    /\ Returned
    /\ response.kind = "http" /\ response.status = 200
    /\ AllConsumedPresent(response.body)
    => FormatReturned /\ IsFormattedResult(result)

\* C6: when units is absent or is neither "metric" nor "imperial", the GET
\* carries units=metric, no error comes of it, and the result is labelled
\* with °C and m/s.
C6_UnitsCoercedToMetric ==
    UnitsUnsupported =>
        /\ \A i \in 1..Len(requests) : Contains(requests[i], "&units=metric&")
        /\ formatted # <<>> =>
              formatted[1] = format_weather_data(fetched[1].val, "metric")
        /\ FormatReturned =>
              /\ EndsWith(formatted[1].val.weather.temperature, " °C")
              /\ EndsWith(formatted[1].val.weather.feels_like, " °C")
              /\ EndsWith(formatted[1].val.weather.wind_speed, " m/s")
              /\ IsFormattedResult(result)

\* units = "kelvin" and a formatted result.
C6_Witness ==
    /\ Returned
    /\ "units" \in DOMAIN params /\ params["units"] = "kelvin"
    /\ Len(requests) = 1
    /\ FormatReturned
    /\ formatted[1].val.weather.temperature = "18.5 °C"

\* C7: what format returns has location "<name>, <country>", temperature
\* and feels_like "<value> °C" (metric) or "<value> °F" (imperial),
\* wind_speed "<value> m/s" or "<value> mph" and humidity "<value>%", each
\* value printed as received.
C7_Labels ==
    FormatReturned =>
        LET d == fetched[1].val
            f == formatted[1].val
            temp_label  == IF units = "metric" THEN " °C" ELSE " °F"
            speed_label == IF units = "metric" THEN " m/s" ELSE " mph"
        IN  /\ units \in {"metric", "imperial"}
            /\ f.location = d.name \o ", " \o d.sys.country
            /\ f.weather.condition = d.weather[1].main
            /\ f.weather.description = d.weather[1].description
            /\ f.weather.temperature = PyStr(d.main.temp) \o temp_label
            /\ f.weather.feels_like = PyStr(d.main.feels_like) \o temp_label
            /\ f.weather.wind_speed = PyStr(d.wind.speed) \o speed_label
            /\ f.weather.humidity = PyStr(d.main.humidity) \o "%"
            /\ d.main.temp = PyFloat(185) => StartsWith(f.weather.temperature, "18.5 ")
            /\ d.main.temp = PyFloat(-5) => StartsWith(f.weather.temperature, "-0.5 ")
            /\ d.main.feels_like = PyInt(-3) => StartsWith(f.weather.feels_like, "-3 ")

\* The winter response formatted with imperial units.
C7_Witness ==
    /\ Returned
    /\ FormatReturned
    /\ units = "imperial"
    /\ formatted[1].val.location = "New York, US"
    /\ formatted[1].val.weather.temperature = "-0.5 °F"
    /\ formatted[1].val.weather.feels_like = "-3 °F"
    /\ formatted[1].val.weather.wind_speed = "4 mph"
    /\ formatted[1].val.weather.humidity = "90%"

\* C8: the raw_data of a FormattedResult is the provider's response with no
\* field added, removed or changed, and is what main serialises.
C8_RawDataUnmodified ==
    FormatReturned =>
        /\ formatted[1].val.raw_data = response.body
        /\ DOMAIN formatted[1].val.raw_data = DOMAIN response.body
        /\ Returned =>
              EndsWith(result, ", \"raw_data\": " \o DumpsResponse(response.body) \o "}")

\* A formatted result whose response has a field the Formatter does not read.
C8_Witness ==
    /\ Returned
    /\ FormatReturned
    /\ "cod" \in DOMAIN response.body
    /\ "cod" \in DOMAIN formatted[1].val.raw_data

\* C9: every failure of the Fetcher, a call that cannot complete included,
\* is returned as {error: the Fetcher's text}; the "An unexpected error
\* occurred: " prefix appears only when the Fetcher did not fail.
C9_FetcherFailuresUnprefixed ==
    Returned /\ response.kind # "none" =>
        /\ FetchRaised => result = ErrorText(fetched[1].exc.msg)
        /\ Contains(result, "An unexpected error occurred: ") =>
              fetched # <<>> /\ fetched[1].ok

\* C10: at most one GET per invocation, none when validation fails and
\* exactly one otherwise; format runs only after the response was read with
\* status 200; the session is closed when main returns.
C10_SingleRequest ==
    /\ Len(requests) <= 1
    /\ Count(events, "GET") = Len(requests)
    /\ Count(events, "format") > 0 =>
          /\ IndexOf(events, "GET") < IndexOf(events, "status_200")
          /\ IndexOf(events, "status_200") < IndexOf(events, "json")
          /\ IndexOf(events, "json") < IndexOf(events, "session_close")
          /\ IndexOf(events, "session_close") < IndexOf(events, "format")
    /\ Returned =>
          /\ (LocationMissing \/ ApiKeyMissing) => Len(requests) = 0
          /\ ~(LocationMissing \/ ApiKeyMissing) => Len(requests) = 1
          /\ session # "open"
          /\ Count(events, "session_open") = Count(events, "session_close")
          /\ Count(events, "session_open") = Len(requests)

\* The one GET failed and main returned with the session closed.
C10_Witness ==
    /\ Returned
    /\ response.kind = "http" /\ response.status = 503
    /\ Len(requests) = 1
    /\ session = "closed"

====
